---------------------------- MODULE Spec2Model ----------------------------
(***************************************************************************)
(* A model of tidwall/redlog (src/redlog.go): a tree of Logger nodes that  *)
(* share the root's sink, threshold, filter and duplicate-suppression      *)
(* cache.                                                                  *)
(*                                                                         *)
(* Strings are sequences of one-character strings ("tokens"); the pid and  *)
(* the three fields of the timestamp are single tokens.  Time is counted   *)
(* in milliseconds; the zero time.Time is 0 and the clock starts at 1.     *)
(*                                                                         *)
(* Spec     : one caller, every exported method one step, all calls made   *)
(*            within one millisecond; the sink is not a terminal.  The     *)
(*            caller builds a chain: each Logger is the Sub of the newest. *)
(* TimeSpec : one caller emitting while time passes.                       *)
(* DupSpec  : one caller emitting on a chain of three Loggers with         *)
(*            suppression armed, while time passes.                        *)
(* ConcSpec : concurrent callers, each making one call on a chain of three *)
(*            Loggers, a step per lock section and per sink write.         *)
(* RaceSpec : ConcSpec while time passes.                                  *)
(* LockSpec : ConcSpec with Sub and the three setters among the calls.     *)
(* GoSpec   : GoLogger: its pipe, the writes to it and its reader.         *)
(* FilterSpec, RenderSpec : HashicorpRaftFilter on every short line, and a *)
(*            severity call for every short message.                       *)
(***************************************************************************)
EXTENDS Integers, Sequences, FiniteSets, TLC

VARIABLES
    nodes,    \* the Logger structs, in creation order; nodes[1] is New's
    sink,     \* the byte strings handed to the root's wr, in call order,
              \* since the last call began while no other call was running
              \* (GoSpec: since the start)
    clock,    \* what time.Now() returns
    exited,   \* os.Exit(1) has been called
    call,     \* the last step of the caller: the call, its arguments, what
              \* it returned, and whether the sink's Write failed in it
    emitted,  \* the last emission that passed doesAccept: its message, its
              \* time, and whether suppression was armed
    pc,       \* ConcSpec: where each concurrent caller is in its call
    frame,    \* ConcSpec: the arguments and locals of each caller's call
    input,    \* the arguments drawn for the next call, where a specification
              \* draws them at the start
    gl,       \* GoSpec: the pipe of GoLogger and its background reader
    prev,     \* DupSpec: the call made before the last severity call
    order     \* the concurrent specifications: the callers in the order they
              \* left the suppression check of logf, and in the order their
              \* writes reached the sink

\* the variables only some specifications use
aux == <<input, gl, prev, order>>

vars == <<nodes, sink, clock, exited, call, emitted, pc, frame, aux>>

-----------------------------------------------------------------------------
(* Bounds of the model *)

MaxNodes == 3
MaxTime == 2

\* GoSpec: the calls made on the log.Logger, and the failed reads followed
MaxWrites == 2
MaxErrs == 2

\* FilterSpec: the length of the lines the filter is called with
MaxLineLen == 4

\* RenderSpec: the length of the messages emitted
MaxMsgLen == 3

(* Program constants *)

logLevelDebug == 0
logLevelVerbose == 1
logLevelNotice == 2
logLevelWarning == 3

\* time.Millisecond, the suppression window, in clock units
Window == 1

\* os.Getpid()
Pid == 100

Levels == logLevelDebug .. logLevelWarning

\* the int arguments SetLevel is called with
LevelArgs == (logLevelDebug - 1) .. (logLevelWarning + 1)

\* the app byte of the i-th Logger: New's, then the ones Sub is called with
Apps == <<"M", "A", "B", "C", "D">>

\* the messages the severity calls format
Msgs == { <<"a">>, <<"b">> }

\* the byte strings Write is called with
Payloads == { <<"t", " ", "[", "W", "]", " ", "a", "\n">>,
              <<"t", " ", "[", "I", "]", " ", "b">> }

NoFilter == "nil"
RaftFilter == "HashicorpRaftFilter"
Filters == {NoFilter, RaftFilter}

-----------------------------------------------------------------------------
(* strings *)

\* unicode.IsSpace on the characters the inputs contain
Space == {" ", "\t", "\n", "\r"}

RECURSIVE TrimRight(_)
TrimRight(s) ==
    IF s # <<>> /\ s[Len(s)] \in Space THEN TrimRight(SubSeq(s, 1, Len(s) - 1)) ELSE s

RECURSIVE TrimLeft(_)
TrimLeft(s) ==
    IF s # <<>> /\ s[1] \in Space THEN TrimLeft(Tail(s)) ELSE s

\* strings.TrimSpace
TrimSpace(s) == TrimLeft(TrimRight(s))

\* strings.IndexByte, 1-based; 0 is Go's -1
IndexByte(s, c) ==
    IF \E i \in 1..Len(s) : s[i] = c
    THEN CHOOSE i \in 1..Len(s) : s[i] = c /\ \A j \in 1..(i - 1) : s[j] # c
    ELSE 0

\* strings.SplitN(s, " ", n) for n >= 1
RECURSIVE SplitN(_, _)
SplitN(s, n) ==
    LET i == IndexByte(s, " ")
    IN IF n = 1 \/ i = 0 THEN <<s>>
       ELSE <<SubSeq(s, 1, i - 1)>> \o SplitN(SubSeq(s, i + 1, Len(s)), n - 1)

\* strings.Join(parts, " ")
RECURSIVE Join(_)
Join(parts) ==
    IF Len(parts) = 0 THEN <<>>
    ELSE IF Len(parts) = 1 THEN parts[1]
    ELSE parts[1] \o <<" ">> \o Join(Tail(parts))

\* the index of the first occurrence of old in s, or 0
IndexOf(s, old) ==
    LET at(i) == i + Len(old) - 1 <= Len(s) /\ SubSeq(s, i, i + Len(old) - 1) = old
    IN IF \E i \in 1..Len(s) : at(i)
       THEN CHOOSE i \in 1..Len(s) : at(i) /\ \A j \in 1..(i - 1) : ~at(j)
       ELSE 0

\* strings.Replace(s, old, new, 1)
Replace1(s, old, new) ==
    LET i == IndexOf(s, old)
    IN IF i = 0 THEN s
       ELSE SubSeq(s, 1, i - 1) \o new \o SubSeq(s, i + Len(old), Len(s))

-----------------------------------------------------------------------------
(* levels and lines *)

\* logLevel.String
LevelString(level) ==
    CASE level = logLevelDebug -> "."
      [] level = logLevelVerbose -> "-"
      [] level = logLevelNotice -> "*"
      [] level = logLevelWarning -> "#"
      [] OTHER -> "?"

\* now.Format("02 Jan 15:04:05.000"): day, month and time of day
TimeFormat(now) == <<"02", " ", "Jan", " ", ToString(now)>>

\* fmt.Sprintf("%d:%c %s %s %s\n", l.pid, app, tm, level, msg)
FormatLine(pid, app, now, level, msg) ==
    <<ToString(pid), ":", app, " ">> \o TimeFormat(now)
        \o <<" ", LevelString(level), " ">> \o msg \o <<"\n">>

\* the escape sequence write puts before a level character
Color(glyph) ==
    CASE glyph = <<".">> -> <<"\\x1b[35m">>
      [] glyph = <<"-">> -> <<>>
      [] glyph = <<"*">> -> <<"\\x1b[1m">>
      [] glyph = <<"#">> -> <<"\\x1b[33m">>
      [] OTHER -> <<>>

\* Render without strings.TrimSpace
RenderNoTrim(tty, line) ==
    LET parts == SplitN(line, 6)
        color == Color(parts[5])
        colored == IF tty /\ color # <<>>
                   THEN Join([parts EXCEPT ![5] = color \o parts[5] \o <<"\\x1b[0m">>])
                   ELSE line
    IN colored \o <<"\n">>

\* what Logger.write hands to io.WriteString
Render(tty, line) ==
    LET parts == SplitN(line, 6)
        color == Color(parts[5])
        colored == IF tty /\ color # <<>>
                   THEN Join([parts EXCEPT ![5] = color \o parts[5] \o <<"\\x1b[0m">>])
                   ELSE line
    IN TrimSpace(colored) \o <<"\n">>

\* the app byte of a rendered line
LineApp(line) == line[3]

\* the level character of a rendered line
LineGlyph(line) ==
    LET f == TrimRight(SplitN(line, 6)[5])
    IN IF Len(f) = 3 THEN f[2] ELSE f[1]

\* the message of a rendered line, without the final newline
LineMsg(line) ==
    LET parts == SplitN(line, 6)
    IN IF Len(parts) < 6 THEN <<>> ELSE SubSeq(parts[6], 1, Len(parts[6]) - 1)

-----------------------------------------------------------------------------
(* the filter *)

\* the app byte HashicorpRaftFilter returns: the zero byte, never assigned
NoApp == "NUL"

RECURSIVE TrimLeftBlanks(_)
TrimLeftBlanks(s) ==
    IF s # <<>> /\ s[1] = " " THEN TrimLeftBlanks(Tail(s)) ELSE s

Colorize(code, marker) == <<code>> \o marker \o <<"\\x1b[0m">>

Leader == <<"[", "L", "e", "a", "d", "e", "r", "]">>
Follower == <<"[", "F", "o", "l", "l", "o", "w", "e", "r", "]">>
Candidate == <<"[", "C", "a", "n", "d", "i", "d", "a", "t", "e", "]">>

HashicorpRaftFilter(line, tty) ==
    LET i1 == IndexByte(line, " ")
        m1 == IF i1 # 0 THEN SubSeq(line, i1 + 1, Len(line)) ELSE line
        i2 == IndexByte(m1, "]")
        tagged == i2 # 0 /\ m1[1] = "["
        level == IF ~tagged THEN logLevelDebug
                 ELSE CASE m1[2] = "W" -> logLevelWarning
                        [] m1[2] = "E" -> logLevelWarning
                        [] m1[2] = "D" -> logLevelDebug
                        [] m1[2] = "V" -> logLevelVerbose
                        [] m1[2] = "I" -> logLevelNotice
                        [] OTHER -> logLevelVerbose
        m2 == IF tagged THEN TrimLeftBlanks(SubSeq(m1, i2 + 1, Len(m1))) ELSE m1
        m3 == IF ~tty THEN m2
              ELSE Replace1(Replace1(Replace1(m2,
                       Leader, Colorize("\\x1b[32m", Leader)),
                       Follower, Colorize("\\x1b[33m", Follower)),
                       Candidate, Colorize("\\x1b[36m", Candidate))
    IN [msg |-> m3, app |-> NoApp, level |-> level]

\* a call of the installed filter
ApplyFilter(filter, line, tty) == HashicorpRaftFilter(line, tty)

-----------------------------------------------------------------------------
(* the Logger struct and its methods, as functions of the state *)

\* a sync.RWMutex: the caller holding it for writing (0: none) and the
\* callers holding it for reading
Unlocked == [w |-> 0, r |-> {}]

\* New(wr)
New(tty) ==
    [mu |-> Unlocked, parent |-> 0, app |-> "M", level |-> logLevelNotice,
     filter |-> NoFilter, idups |-> FALSE, last |-> <<>>, lastt |-> 0,
     tty |-> tty, pid |-> Pid, wr |-> TRUE]

\* the struct l.Sub(app) returns
SubLogger(l, a) ==
    [mu |-> Unlocked, parent |-> l, app |-> a, level |-> 0, filter |-> NoFilter,
     idups |-> FALSE, last |-> <<>>, lastt |-> 0, tty |-> FALSE, pid |-> 0,
     wr |-> FALSE]

\* the nodes after l.SetIgnoreDups(t)
RECURSIVE AfterSetIgnoreDups(_, _, _)
AfterSetIgnoreDups(ns, l, t) ==
    IF ns[l].parent # 0 THEN AfterSetIgnoreDups(ns, ns[l].parent, t)
    ELSE [ns EXCEPT ![l].idups = t]

\* ClampLevel without the upper bound
ClampLevelNoUpper(level) ==
    IF level < logLevelDebug THEN logLevelDebug ELSE level

\* the value SetLevel stores for its argument
ClampLevel(level) ==
    IF level < logLevelDebug THEN logLevelDebug
    ELSE IF level > logLevelWarning THEN logLevelWarning
    ELSE level

\* SetLevel without the delegation to the parent
AfterSetLevelHere(ns, l, level) ==
    [ns EXCEPT ![l].level = ClampLevel(level)]

\* the nodes after l.SetLevel(level)
RECURSIVE AfterSetLevel(_, _, _)
AfterSetLevel(ns, l, level) ==
    IF ns[l].parent # 0 THEN AfterSetLevel(ns, ns[l].parent, level)
    ELSE [ns EXCEPT ![l].level = ClampLevel(level)]

\* the nodes after l.SetFilter(filter)
RECURSIVE AfterSetFilter(_, _, _)
AfterSetFilter(ns, l, filter) ==
    IF ns[l].parent # 0 THEN AfterSetFilter(ns, ns[l].parent, filter)
    ELSE [ns EXCEPT ![l].filter = filter]

\* doesAccept with > for >=
RECURSIVE doesAcceptAbove(_, _, _)
doesAcceptAbove(ns, l, level) ==
    IF ns[l].parent # 0 THEN doesAcceptAbove(ns, ns[l].parent, level)
    ELSE level > ns[l].level

\* l.doesAccept(level)
RECURSIVE doesAccept(_, _, _)
doesAccept(ns, l, level) ==
    IF ns[l].parent # 0 THEN doesAccept(ns, ns[l].parent, level)
    ELSE level >= ns[l].level

\* IsDup with <= for <
IsDupAtWindow(ns, l, now, msg) ==
    /\ ns[l].idups
    /\ ns[l].last = msg
    /\ ns[l].lastt # 0
    /\ now - ns[l].lastt <= Window

\* the suppression decision of logf on the root l
IsDup(ns, l, now, msg) ==
    /\ ns[l].idups
    /\ ns[l].last = msg
    /\ ns[l].lastt # 0
    /\ now - ns[l].lastt < Window

\* the sink after l.write(line)
write(ns, l, snk, line) == Append(snk, Render(ns[l].tty, line))

\* the app byte that reaches the root when l.logf(app, ...) is called
RECURSIVE logfApp(_, _, _)
logfApp(ns, l, app) ==
    IF ns[l].parent # 0 THEN logfApp(ns, ns[l].parent, ns[l].app) ELSE app

\* the app byte that reaches the root when l.iwrite(p, app) is called
RECURSIVE iwriteApp(_, _, _)
iwriteApp(ns, l, app) ==
    IF ns[l].parent # 0 THEN iwriteApp(ns, ns[l].parent, app) ELSE app

\* logf storing l.last and l.lastt before it asks doesAccept
RECURSIVE logfCacheFirst(_, _, _, _, _, _, _)
logfCacheFirst(ns, snk, now, l, app, level, msg) ==
    IF ns[l].parent # 0
    THEN logfCacheFirst(ns, snk, now, ns[l].parent, ns[l].app, level, msg)
    ELSE LET dup == IsDup(ns, l, now, msg)
             ns2 == IF ns[l].idups
                    THEN [ns EXCEPT ![l].last = msg, ![l].lastt = now]
                    ELSE ns
         IN IF ~doesAccept(ns, l, level)
            THEN [nodes |-> ns2, sink |-> snk, accepted |-> FALSE, dup |-> FALSE]
            ELSE [nodes |-> ns2,
                  sink |-> IF dup THEN snk
                           ELSE write(ns2, l, snk,
                                      FormatLine(ns2[l].pid, app, now, level, msg)),
                  accepted |-> TRUE, dup |-> dup]

\* logf comparing and storing the app byte and the level with the message
RECURSIVE logfCacheLine(_, _, _, _, _, _, _)
logfCacheLine(ns, snk, now, l, app, level, msg) ==
    IF ns[l].parent # 0
    THEN logfCacheLine(ns, snk, now, ns[l].parent, ns[l].app, level, msg)
    ELSE IF ~doesAccept(ns, l, level)
    THEN [nodes |-> ns, sink |-> snk, accepted |-> FALSE, dup |-> FALSE]
    ELSE LET key == <<app, LevelString(level)>> \o msg
             dup == IsDup(ns, l, now, key)
             ns2 == IF ns[l].idups
                    THEN [ns EXCEPT ![l].last = key, ![l].lastt = now]
                    ELSE ns
         IN [nodes |-> ns2,
             sink |-> IF dup THEN snk
                      ELSE write(ns2, l, snk, FormatLine(ns2[l].pid, app, now, level, msg)),
             accepted |-> TRUE, dup |-> dup]

\* l.logf(app, level, format, noformat, args...), msg being the formatted args:
\* the nodes and the sink after it, whether the level was accepted and
\* whether the line was dropped as a duplicate
RECURSIVE logf(_, _, _, _, _, _, _)
logf(ns, snk, now, l, app, level, msg) ==
    IF ns[l].parent # 0 THEN logf(ns, snk, now, ns[l].parent, ns[l].app, level, msg)
    ELSE IF ~doesAccept(ns, l, level)
    THEN [nodes |-> ns, sink |-> snk, accepted |-> FALSE, dup |-> FALSE]
    ELSE LET dup == IsDup(ns, l, now, msg)
             ns2 == IF ns[l].idups
                    THEN [ns EXCEPT ![l].last = msg, ![l].lastt = now]
                    ELSE ns
         IN [nodes |-> ns2,
             sink |-> IF dup THEN snk
                      ELSE write(ns2, l, snk, FormatLine(ns2[l].pid, app, now, level, msg)),
             accepted |-> TRUE, dup |-> dup]

\* iwrite stamping the line with the app byte the filter returned
RECURSIVE iwriteFilterApp(_, _, _, _, _, _, _)
iwriteFilterApp(ns, snk, now, l, p, app, werr) ==
    IF ns[l].parent # 0 THEN iwriteFilterApp(ns, snk, now, ns[l].parent, p, app, werr)
    ELSE IF ns[l].filter = NoFilter
    THEN [nodes |-> ns, sink |-> Append(snk, p), accepted |-> FALSE, dup |-> FALSE,
          msg |-> <<>>, n |-> IF werr THEN 0 ELSE Len(p), err |-> werr]
    ELSE LET f == ApplyFilter(ns[l].filter, TrimSpace(p), ns[l].tty)
             r == logf(ns, snk, now, l, f.app, f.level, f.msg)
         IN [nodes |-> r.nodes, sink |-> r.sink, accepted |-> r.accepted,
             dup |-> r.dup, msg |-> f.msg, n |-> Len(p), err |-> FALSE]

\* iwrite dropping the sink's error on the path without a filter
RECURSIVE iwriteNoError(_, _, _, _, _, _, _)
iwriteNoError(ns, snk, now, l, p, app, werr) ==
    IF ns[l].parent # 0 THEN iwriteNoError(ns, snk, now, ns[l].parent, p, app, werr)
    ELSE IF ns[l].filter = NoFilter
    THEN [nodes |-> ns, sink |-> Append(snk, p), accepted |-> FALSE, dup |-> FALSE,
          msg |-> <<>>, n |-> Len(p), err |-> FALSE]
    ELSE LET f == ApplyFilter(ns[l].filter, TrimSpace(p), ns[l].tty)
             r == logf(ns, snk, now, l, app, f.level, f.msg)
         IN [nodes |-> r.nodes, sink |-> r.sink, accepted |-> r.accepted,
             dup |-> r.dup, msg |-> f.msg, n |-> Len(p), err |-> FALSE]

\* l.iwrite(p, app); werr is whether the sink's Write fails.  n and err are
\* what it returns.
RECURSIVE iwrite(_, _, _, _, _, _, _)
iwrite(ns, snk, now, l, p, app, werr) ==
    IF ns[l].parent # 0 THEN iwrite(ns, snk, now, ns[l].parent, p, app, werr)
    ELSE IF ns[l].filter = NoFilter
    THEN [nodes |-> ns, sink |-> Append(snk, p), accepted |-> FALSE, dup |-> FALSE,
          msg |-> <<>>, n |-> IF werr THEN 0 ELSE Len(p), err |-> werr]
    ELSE LET f == ApplyFilter(ns[l].filter, TrimSpace(p), ns[l].tty)
             r == logf(ns, snk, now, l, app, f.level, f.msg)
         IN [nodes |-> r.nodes, sink |-> r.sink, accepted |-> r.accepted,
             dup |-> r.dup, msg |-> f.msg, n |-> Len(p), err |-> FALSE]

\* the root of l's hierarchy
RECURSIVE RootOf(_, _)
RootOf(ns, l) == IF ns[l].parent # 0 THEN RootOf(ns, ns[l].parent) ELSE l

-----------------------------------------------------------------------------
(* one caller, every method one step *)

NoEmission == [msg |-> <<>>, t |-> 0, armed |-> FALSE]

\* the concurrent callers of ConcSpec
Callers == {1, 2}

NoFrame ==
    [op |-> "none", l |-> 0, app |-> "", level |-> 0, msg |-> <<>>, now |-> 0,
     n |-> 0, err |-> FALSE, arg |-> 0]

\* a call that returns nothing
Called(op, l, arg) ==
    [op |-> op, l |-> l, arg |-> arg, n |-> 0, err |-> FALSE, werr |-> FALSE]

\* no arguments drawn
NoInput == [op |-> "none"]

\* GoLogger was not called
NoPipe == [owner |-> 0]

\* no caller has reached the suppression check or the sink
NoOrder == [checked |-> <<>>, written |-> <<>>]

Init ==
    /\ nodes = <<New(FALSE)>>
    /\ sink = <<>>
    /\ clock = 1
    /\ exited = FALSE
    /\ call = Called("New", 1, 0)
    /\ emitted = NoEmission
    /\ pc = [t \in Callers |-> "idle"]
    /\ frame = [t \in Callers |-> NoFrame]
    /\ input = NoInput
    /\ gl = NoPipe
    /\ prev = Called("none", 0, 0)
    /\ order = NoOrder

Ls == 1..Len(nodes)

\* time passes between two calls
Tick ==
    /\ ~exited
    /\ clock < MaxTime
    /\ clock' = clock + 1
    /\ sink' = <<>>
    /\ call' = Called("Tick", 1, 0)
    /\ UNCHANGED <<nodes, exited, emitted, pc, frame, aux>>

Sub(l, a) ==
    /\ ~exited
    /\ Len(nodes) < MaxNodes
    /\ nodes' = Append(nodes, SubLogger(l, a))
    /\ sink' = <<>>
    /\ call' = Called("Sub", l, a)
    /\ UNCHANGED <<clock, exited, emitted, pc, frame, aux>>

SetIgnoreDups(l, t) ==
    /\ ~exited
    /\ nodes' = AfterSetIgnoreDups(nodes, l, t)
    /\ sink' = <<>>
    /\ call' = Called("SetIgnoreDups", l, t)
    /\ UNCHANGED <<clock, exited, emitted, pc, frame, aux>>

SetLevel(l, level) ==
    /\ ~exited
    /\ nodes' = AfterSetLevel(nodes, l, level)
    /\ sink' = <<>>
    /\ call' = Called("SetLevel", l, level)
    /\ UNCHANGED <<clock, exited, emitted, pc, frame, aux>>

SetFilter(l, filter) ==
    /\ ~exited
    /\ nodes' = AfterSetFilter(nodes, l, filter)
    /\ sink' = <<>>
    /\ call' = Called("SetFilter", l, filter)
    /\ UNCHANGED <<clock, exited, emitted, pc, frame, aux>>

\* emitted after a call of logf with result r
Emitted(r, msg, l) ==
    IF r.accepted
    THEN [msg |-> msg, t |-> clock, armed |-> nodes[RootOf(nodes, l)].idups]
    ELSE emitted

\* l.Write(p); the sink's Write fails or not
Write(l, p) ==
    /\ ~exited
    /\ \E werr \in BOOLEAN :
         LET r == iwrite(nodes, <<>>, clock, l, p, nodes[l].app, werr)
         IN /\ werr => r.sink # <<>>
            /\ nodes' = r.nodes
            /\ sink' = r.sink
            /\ emitted' = Emitted(r, r.msg, l)
            /\ call' = [op |-> "Write", l |-> l, arg |-> p, n |-> r.n, err |-> r.err,
                        werr |-> werr]
    /\ UNCHANGED <<clock, exited, pc, frame, aux>>

\* a severity call on l: each variant formats msg and calls
\* l.logf(l.app, level, ...); the fatal ones then call os.Exit(1)
EmitStep(op, l, level, msg, fatal) ==
    /\ ~exited
    /\ LET r == logf(nodes, <<>>, clock, l, nodes[l].app, level, msg)
       IN /\ nodes' = r.nodes
          /\ sink' = r.sink
          /\ emitted' = Emitted(r, msg, l)
          /\ \E werr \in BOOLEAN :
                /\ werr => r.sink # <<>>
                /\ call' = [op |-> op, l |-> l, arg |-> msg, n |-> 0, err |-> FALSE,
                            werr |-> werr]
    /\ exited' = fatal
    /\ UNCHANGED <<clock, pc, frame>>

Emit(op, l, level, msg, fatal) ==
    /\ EmitStep(op, l, level, msg, fatal)
    /\ UNCHANGED aux

\* Debug, Debugf, Debugln
Debug(l, msg) == Emit("Debug", l, logLevelDebug, msg, FALSE)

\* Verbose, Verbosef, Verboseln
Verbose(l, msg) == Emit("Verbose", l, logLevelVerbose, msg, FALSE)

\* Notice, Noticef, Noticeln, Printf and its two variants
Notice(l, msg) == Emit("Notice", l, logLevelNotice, msg, FALSE)

\* Warning, Warningf, Warningln
Warning(l, msg) == Emit("Warning", l, logLevelWarning, msg, FALSE)

\* Fatal, Fatalf, Fatalln
Fatal(l, msg) == Emit("Fatal", l, logLevelWarning, msg, TRUE)

\* the level each severity call passes to logf
OpLevel(op) ==
    CASE op = "Debug" -> logLevelDebug
      [] op = "Verbose" -> logLevelVerbose
      [] op = "Notice" -> logLevelNotice
      [] op = "Warning" -> logLevelWarning
      [] op = "Fatal" -> logLevelWarning

EmitOps == {"Debug", "Verbose", "Notice", "Warning", "Fatal"}

Next ==
    \/ Sub(Len(nodes), Apps[Len(nodes) + 1])
    \/ \E l \in Ls, t \in BOOLEAN : SetIgnoreDups(l, t)
    \/ \E l \in Ls, level \in LevelArgs : SetLevel(l, level)
    \/ \E l \in Ls, filter \in Filters : SetFilter(l, filter)
    \/ \E l \in Ls, p \in Payloads : Write(l, p)
    \/ \E l \in Ls, msg \in Msgs : Debug(l, msg)
    \/ \E l \in Ls, msg \in Msgs : Verbose(l, msg)
    \/ \E l \in Ls, msg \in Msgs : Notice(l, msg)
    \/ \E l \in Ls, msg \in Msgs : Warning(l, msg)
    \/ \E l \in Ls, msg \in Msgs : Fatal(l, msg)

Spec == Init /\ [][Next]_vars

TimeNext ==
    \/ Tick
    \/ Sub(Len(nodes), Apps[Len(nodes) + 1])
    \/ \E l \in Ls, t \in BOOLEAN : SetIgnoreDups(l, t)
    \/ \E l \in Ls, msg \in Msgs : Debug(l, msg)
    \/ \E l \in Ls, msg \in Msgs : Notice(l, msg)
    \/ \E l \in Ls, msg \in Msgs : Warning(l, msg)

TimeSpec == Init /\ [][TimeNext]_vars

-----------------------------------------------------------------------------
(* DupSpec: one caller emitting on a chain of three Loggers with suppression
   armed, while time passes *)

DupInit ==
    /\ nodes = << [New(FALSE) EXCEPT !.idups = TRUE],
                  SubLogger(1, Apps[2]), SubLogger(2, Apps[3]) >>
    /\ sink = <<>>
    /\ clock = 1
    /\ exited = FALSE
    /\ call = Called("New", 1, 0)
    /\ emitted = NoEmission
    /\ pc = [t \in Callers |-> "idle"]
    /\ frame = [t \in Callers |-> NoFrame]
    /\ input = NoInput
    /\ gl = NoPipe
    /\ prev = Called("none", 0, 0)
    /\ order = NoOrder

\* a severity call on l, the call made before it being remembered
DupEmit(op, l, msg) ==
    /\ EmitStep(op, l, OpLevel(op), msg, FALSE)
    /\ prev' = call
    /\ UNCHANGED <<input, gl, order>>

DupNext ==
    \/ Tick
    \/ \E l \in Ls, msg \in Msgs : DupEmit("Debug", l, msg)
    \/ \E l \in Ls, msg \in Msgs : DupEmit("Notice", l, msg)
    \/ \E l \in Ls, msg \in Msgs : DupEmit("Warning", l, msg)

DupSpec == DupInit /\ [][DupNext]_vars

-----------------------------------------------------------------------------
(* ConcSpec: concurrent callers *)

\* a chain of three Loggers over a terminal or a plain sink; the root's filter
\* and idups as earlier calls of SetFilter and SetIgnoreDups left them
ConcInit ==
    /\ \E tty \in BOOLEAN, filter \in Filters, idups \in BOOLEAN :
          nodes = << [New(tty) EXCEPT !.filter = filter, !.idups = idups],
                     SubLogger(1, Apps[2]), SubLogger(2, Apps[3]) >>
    /\ sink = <<>>
    /\ clock = 1
    /\ exited = FALSE
    /\ call = Called("New", 1, 0)
    /\ emitted = NoEmission
    /\ pc = [t \in Callers |-> "idle"]
    /\ frame = [t \in Callers |-> NoFrame]
    /\ input = NoInput
    /\ gl = NoPipe
    /\ prev = Called("none", 0, 0)
    /\ order = NoOrder

\* the root's mutex
RootMu == nodes[1].mu

\* caller t moves to pc p with frame f
Goto(t, p, f) ==
    /\ pc' = [pc EXCEPT ![t] = p]
    /\ frame' = [frame EXCEPT ![t] = f]

\* t calls a severity method of l: the chain of logf calls up to the root
CallLogf(t, l, level, msg) ==
    /\ pc[t] = "idle"
    /\ Goto(t, "doesAccept",
            [NoFrame EXCEPT !.op = "logf", !.l = l, !.level = level, !.msg = msg,
                            !.app = logfApp(nodes, l, nodes[l].app)])
    /\ UNCHANGED <<nodes, sink, clock, exited, call, emitted, aux>>

\* t calls l.Write(p): the chain of iwrite calls up to the root
CallWrite(t, l, p) ==
    /\ pc[t] = "idle"
    /\ Goto(t, "filter",
            [NoFrame EXCEPT !.op = "Write", !.l = l, !.msg = p,
                            !.app = iwriteApp(nodes, l, nodes[l].app)])
    /\ UNCHANGED <<nodes, sink, clock, exited, call, emitted, aux>>

\* iwrite on the root reads l.filter under RLock; without a filter it goes on
\* to l.wr.Write(p), with one it calls the filter and logf
ReadFilter(t) ==
    /\ pc[t] = "filter"
    /\ RootMu.w = 0
    /\ IF nodes[1].filter = NoFilter
       THEN Goto(t, "bypass", frame[t])
       ELSE LET f == ApplyFilter(nodes[1].filter, TrimSpace(frame[t].msg), nodes[1].tty)
            IN Goto(t, "doesAccept",
                    [frame[t] EXCEPT !.level = f.level, !.msg = f.msg,
                                     !.n = Len(frame[t].msg)])
    /\ UNCHANGED <<nodes, sink, clock, exited, call, emitted, aux>>

\* l.wr.Write(p) begins, no lock held
BypassBegin(t) ==
    /\ pc[t] = "bypass"
    /\ Goto(t, "writing", frame[t])
    /\ UNCHANGED <<nodes, sink, clock, exited, call, emitted, aux>>

\* l.wr.Write(p) returns, and iwrite returns what it returned
BypassEnd(t) ==
    /\ pc[t] = "writing"
    /\ frame[t].op = "Write"
    /\ RootMu.w # t
    /\ sink' = Append(sink, frame[t].msg)
    /\ \E werr \in BOOLEAN :
          Goto(t, "done", [frame[t] EXCEPT !.err = werr,
                                           !.n = IF werr THEN 0 ELSE Len(frame[t].msg)])
    /\ order' = [order EXCEPT !.written = Append(@, t)]
    /\ UNCHANGED <<nodes, clock, exited, call, emitted, input, gl, prev>>

\* logf on the root: doesAccept reads l.level under RLock
DoesAccept(t) ==
    /\ pc[t] = "doesAccept"
    /\ RootMu.w = 0
    /\ Goto(t, IF doesAccept(nodes, 1, frame[t].level) THEN "now" ELSE "done", frame[t])
    /\ UNCHANGED <<nodes, sink, clock, exited, call, emitted, aux>>

\* time.Now() and the formatting of the message
Now(t) ==
    /\ pc[t] = "now"
    /\ Goto(t, "cache", [frame[t] EXCEPT !.now = clock])
    /\ UNCHANGED <<nodes, sink, clock, exited, call, emitted, aux>>

\* Cache returning with the mutex still held
CacheKeepLock(t) ==
    /\ pc[t] = "cache"
    /\ RootMu = Unlocked
    /\ nodes' = IF nodes[1].idups
                THEN [nodes EXCEPT ![1].last = frame[t].msg, ![1].lastt = frame[t].now,
                                   ![1].mu.w = t]
                ELSE [nodes EXCEPT ![1].mu.w = t]
    /\ Goto(t, IF IsDup(nodes, 1, frame[t].now, frame[t].msg) THEN "done" ELSE "write",
            frame[t])
    /\ order' = IF IsDup(nodes, 1, frame[t].now, frame[t].msg) THEN order
                ELSE [order EXCEPT !.checked = Append(@, t)]
    /\ UNCHANGED <<sink, clock, exited, call, emitted, input, gl, prev>>

\* Cache sending a duplicate on to l.write
CacheWritesDup(t) ==
    /\ pc[t] = "cache"
    /\ RootMu = Unlocked
    /\ nodes' = IF nodes[1].idups
                THEN [nodes EXCEPT ![1].last = frame[t].msg, ![1].lastt = frame[t].now]
                ELSE nodes
    /\ Goto(t, "write", frame[t])
    /\ order' = IF IsDup(nodes, 1, frame[t].now, frame[t].msg) THEN order
                ELSE [order EXCEPT !.checked = Append(@, t)]
    /\ UNCHANGED <<sink, clock, exited, call, emitted, input, gl, prev>>

\* Cache leaving l.last and l.lastt as they were
CacheNoUpdate(t) ==
    /\ pc[t] = "cache"
    /\ RootMu = Unlocked
    /\ nodes' = nodes
    /\ Goto(t, IF IsDup(nodes, 1, frame[t].now, frame[t].msg) THEN "done" ELSE "write",
            frame[t])
    /\ order' = IF IsDup(nodes, 1, frame[t].now, frame[t].msg) THEN order
                ELSE [order EXCEPT !.checked = Append(@, t)]
    /\ UNCHANGED <<sink, clock, exited, call, emitted, input, gl, prev>>

\* the section of logf between l.mu.Lock() and l.mu.Unlock(); a caller whose
\* line is not dropped goes on to l.write
Cache(t) ==
    /\ pc[t] = "cache"
    /\ RootMu = Unlocked
    /\ nodes' = IF nodes[1].idups
                THEN [nodes EXCEPT ![1].last = frame[t].msg, ![1].lastt = frame[t].now]
                ELSE nodes
    /\ Goto(t, IF IsDup(nodes, 1, frame[t].now, frame[t].msg) THEN "done" ELSE "write",
            frame[t])
    /\ order' = IF IsDup(nodes, 1, frame[t].now, frame[t].msg) THEN order
                ELSE [order EXCEPT !.checked = Append(@, t)]
    /\ UNCHANGED <<sink, clock, exited, call, emitted, input, gl, prev>>

\* l.write(line): l.mu.Lock(), and io.WriteString begins
WriteLock(t) ==
    /\ pc[t] = "write"
    /\ RootMu = Unlocked
    /\ nodes' = [nodes EXCEPT ![1].mu.w = t]
    /\ Goto(t, "writing", frame[t])
    /\ UNCHANGED <<sink, clock, exited, call, emitted, aux>>

\* io.WriteString returns, and the deferred l.mu.Unlock()
WriteUnlock(t) ==
    /\ pc[t] = "writing"
    /\ RootMu.w = t
    /\ sink' = Append(sink, Render(nodes[1].tty,
                   FormatLine(nodes[1].pid, frame[t].app, frame[t].now,
                              frame[t].level, frame[t].msg)))
    /\ nodes' = [nodes EXCEPT ![1].mu.w = 0]
    /\ Goto(t, "done", frame[t])
    /\ order' = [order EXCEPT !.written = Append(@, t)]
    /\ UNCHANGED <<clock, exited, call, emitted, input, gl, prev>>

ConcNext ==
    \/ \E t \in Callers, l \in Ls, msg \in Msgs : CallLogf(t, l, logLevelDebug, msg)
    \/ \E t \in Callers, l \in Ls, msg \in Msgs : CallLogf(t, l, logLevelNotice, msg)
    \/ \E t \in Callers, l \in Ls, p \in Payloads : CallWrite(t, l, p)
    \/ \E t \in Callers : ReadFilter(t)
    \/ \E t \in Callers : BypassBegin(t)
    \/ \E t \in Callers : BypassEnd(t)
    \/ \E t \in Callers : DoesAccept(t)
    \/ \E t \in Callers : Now(t)
    \/ \E t \in Callers : Cache(t)
    \/ \E t \in Callers : WriteLock(t)
    \/ \E t \in Callers : WriteUnlock(t)

ConcSpec == ConcInit /\ [][ConcNext]_vars

-----------------------------------------------------------------------------
(* RaceSpec: the concurrent callers of ConcSpec, while time passes *)

\* time passes between two steps of the callers
ConcTick ==
    /\ clock < MaxTime
    /\ clock' = clock + 1
    /\ UNCHANGED <<nodes, sink, exited, call, emitted, pc, frame, aux>>

RaceNext ==
    \/ ConcTick
    \/ \E t \in Callers, l \in Ls, msg \in Msgs : CallLogf(t, l, logLevelDebug, msg)
    \/ \E t \in Callers, l \in Ls, msg \in Msgs : CallLogf(t, l, logLevelNotice, msg)
    \/ \E t \in Callers, l \in Ls, p \in Payloads : CallWrite(t, l, p)
    \/ \E t \in Callers : ReadFilter(t)
    \/ \E t \in Callers : BypassBegin(t)
    \/ \E t \in Callers : BypassEnd(t)
    \/ \E t \in Callers : DoesAccept(t)
    \/ \E t \in Callers : Now(t)
    \/ \E t \in Callers : Cache(t)
    \/ \E t \in Callers : WriteLock(t)
    \/ \E t \in Callers : WriteUnlock(t)

RaceSpec == ConcInit /\ [][RaceNext]_vars

-----------------------------------------------------------------------------
(* LockSpec: the concurrent callers also call Sub and the three setters *)

\* the int arguments the concurrent callers pass to SetLevel
LockLevelArgs == {logLevelDebug, logLevelWarning + 1}

\* t calls l.Sub(app)
CallSub(t, l) ==
    /\ pc[t] = "idle"
    /\ Goto(t, "sub", [NoFrame EXCEPT !.op = "Sub", !.l = l,
                                      !.app = Apps[Len(nodes) + 1]])
    /\ UNCHANGED <<nodes, sink, clock, exited, call, emitted, aux>>

\* Sub builds the struct between l.mu.RLock() and the deferred RUnlock()
SubLocked(t) ==
    /\ pc[t] = "sub"
    /\ nodes[frame[t].l].mu.w = 0
    /\ nodes' = Append(nodes, SubLogger(frame[t].l, frame[t].app))
    /\ Goto(t, "done", frame[t])
    /\ UNCHANGED <<sink, clock, exited, call, emitted, aux>>

\* t calls l.SetLevel, l.SetFilter or l.SetIgnoreDups: the chain of calls up to
\* the root, made with no lock held
CallSetter(t, l, op, arg) ==
    /\ pc[t] = "idle"
    /\ Goto(t, "set", [NoFrame EXCEPT !.op = op, !.arg = arg])
    /\ UNCHANGED <<nodes, sink, clock, exited, call, emitted, aux>>

\* the setter on the root, between l.mu.Lock() and the deferred Unlock()
SetLocked(t) ==
    /\ pc[t] = "set"
    /\ RootMu = Unlocked
    /\ nodes' = CASE frame[t].op = "SetLevel" -> AfterSetLevel(nodes, 1, frame[t].arg)
                  [] frame[t].op = "SetFilter" -> AfterSetFilter(nodes, 1, frame[t].arg)
                  [] frame[t].op = "SetIgnoreDups" ->
                         AfterSetIgnoreDups(nodes, 1, frame[t].arg)
    /\ Goto(t, "done", frame[t])
    /\ UNCHANGED <<sink, clock, exited, call, emitted, aux>>

\* a step of caller t inside its call
Step(t) ==
    \/ ReadFilter(t)
    \/ BypassBegin(t)
    \/ BypassEnd(t)
    \/ DoesAccept(t)
    \/ Now(t)
    \/ Cache(t)
    \/ WriteLock(t)
    \/ WriteUnlock(t)
    \/ SubLocked(t)
    \/ SetLocked(t)

LockNext ==
    \/ \E t \in Callers, l \in Ls, msg \in Msgs : CallLogf(t, l, logLevelDebug, msg)
    \/ \E t \in Callers, l \in Ls, msg \in Msgs : CallLogf(t, l, logLevelNotice, msg)
    \/ \E t \in Callers, l \in Ls, p \in Payloads : CallWrite(t, l, p)
    \/ \E t \in Callers, l \in Ls : CallSub(t, l)
    \/ \E t \in Callers, l \in Ls, level \in LockLevelArgs :
          CallSetter(t, l, "SetLevel", level)
    \/ \E t \in Callers, l \in Ls, filter \in Filters :
          CallSetter(t, l, "SetFilter", filter)
    \/ \E t \in Callers, l \in Ls, b \in BOOLEAN :
          CallSetter(t, l, "SetIgnoreDups", b)
    \/ \E t \in Callers : Step(t)

LockSpec == ConcInit /\ [][LockNext]_vars

-----------------------------------------------------------------------------
(* GoSpec: GoLogger, its pipe and its background reader *)

\* the strings the log.Logger returned by GoLogger is asked to print
GoMsgs == { <<"a">>, <<"a", "\n">>, <<"a", "\n", "b">> }

\* what log.Logger.Output writes for s, with no prefix and no flags: s, and a
\* newline when s does not end with one
Output(s) == IF s # <<>> /\ s[Len(s)] = "\n" THEN s ELSE s \o <<"\n">>

\* the newline-terminated lines of s, each with its newline
RECURSIVE SplitLines(_)
SplitLines(s) ==
    LET i == IndexByte(s, "\n")
    IN IF i = 0 THEN <<>>
       ELSE <<SubSeq(s, 1, i)>> \o SplitLines(SubSeq(s, i + 1, Len(s)))

\* rd, wr := io.Pipe(), log.New(wr, "", 0), bufio.NewReader(rd) and the reader
\* about to call ReadBytes
NewPipe(l) ==
    [owner |-> l, pipe |-> <<>>, buf |-> <<>>, closed |-> FALSE, rpc |-> "read",
     line |-> <<>>, errs |-> 0, writes |-> 0, lines |-> <<>>, relayed |-> <<>>]

\* a chain of three Loggers; the root's level and idups as earlier calls of
\* SetLevel and SetIgnoreDups left them
GoInit ==
    /\ \E level \in {logLevelNotice, logLevelWarning}, idups \in BOOLEAN :
          nodes = << [New(FALSE) EXCEPT !.level = level, !.idups = idups],
                     SubLogger(1, Apps[2]), SubLogger(2, Apps[3]) >>
    /\ sink = <<>>
    /\ clock = 1
    /\ exited = FALSE
    /\ call = Called("New", 1, 0)
    /\ emitted = NoEmission
    /\ pc = [t \in Callers |-> "idle"]
    /\ frame = [t \in Callers |-> NoFrame]
    /\ input = NoInput
    /\ gl = NoPipe
    /\ prev = Called("none", 0, 0)
    /\ order = NoOrder

\* l.GoLogger()
GoLogger(l) ==
    /\ gl = NoPipe
    /\ gl' = NewPipe(l)
    /\ UNCHANGED <<nodes, sink, clock, exited, call, emitted, pc, frame, input, prev,
                   order>>

\* a Print on the log.Logger: Output hands its bytes to the pipe in one Write,
\* which waits for the reader to take them
GoPrint(s) ==
    /\ gl.owner # 0
    /\ ~gl.closed
    /\ gl.pipe = <<>>
    /\ gl.writes < MaxWrites
    /\ gl' = [gl EXCEPT !.pipe = Output(s), !.writes = @ + 1,
                        !.lines = @ \o SplitLines(Output(s))]
    /\ UNCHANGED <<nodes, sink, clock, exited, call, emitted, pc, frame, input, prev,
                   order>>

\* the write end of the pipe is closed
GoClose ==
    /\ gl.owner # 0
    /\ ~gl.closed
    /\ gl.pipe = <<>>
    /\ gl' = [gl EXCEPT !.closed = TRUE]
    /\ UNCHANGED <<nodes, sink, clock, exited, call, emitted, pc, frame, input, prev,
                   order>>

\* ReadBytes finds no newline in the buffer and reads what the writer offers
ReaderFill ==
    /\ gl.owner # 0
    /\ gl.rpc = "read"
    /\ IndexByte(gl.buf, "\n") = 0
    /\ gl.pipe # <<>>
    /\ gl' = [gl EXCEPT !.buf = @ \o gl.pipe, !.pipe = <<>>]
    /\ UNCHANGED <<nodes, sink, clock, exited, call, emitted, pc, frame, input, prev,
                   order>>

\* ReadBytes returns the bytes up to and including the first newline
ReaderLine ==
    /\ gl.owner # 0
    /\ gl.rpc = "read"
    /\ IndexByte(gl.buf, "\n") # 0
    /\ gl' = [gl EXCEPT !.line = SubSeq(gl.buf, 1, IndexByte(gl.buf, "\n")),
                        !.buf = SubSeq(gl.buf, IndexByte(gl.buf, "\n") + 1, Len(gl.buf)),
                        !.rpc = "emit"]
    /\ UNCHANGED <<nodes, sink, clock, exited, call, emitted, pc, frame, input, prev,
                   order>>

\* l.Printf("%s", line[:len(line)-1]), and back to ReadBytes
ReaderEmit ==
    /\ gl.owner # 0
    /\ gl.rpc = "emit"
    /\ LET msg == SubSeq(gl.line, 1, Len(gl.line) - 1)
           r == logf(nodes, sink, clock, gl.owner, nodes[gl.owner].app,
                     logLevelNotice, msg)
       IN /\ nodes' = r.nodes
          /\ sink' = r.sink
          /\ gl' = [gl EXCEPT !.rpc = "read", !.line = <<>>,
                              !.relayed = Append(@, msg)]
    /\ UNCHANGED <<clock, exited, call, emitted, pc, frame, input, prev, order>>

\* ReadBytes returns an error, the pipe being closed and empty: continue
ReaderError ==
    /\ gl.owner # 0
    /\ gl.rpc = "read"
    /\ IndexByte(gl.buf, "\n") = 0
    /\ gl.pipe = <<>>
    /\ gl.closed
    /\ gl.errs < MaxErrs
    /\ gl' = [gl EXCEPT !.buf = <<>>, !.errs = @ + 1]
    /\ UNCHANGED <<nodes, sink, clock, exited, call, emitted, pc, frame, input, prev,
                   order>>

GoNext ==
    \/ \E l \in Ls : GoLogger(l)
    \/ \E s \in GoMsgs : GoPrint(s)
    \/ GoClose
    \/ ReaderFill
    \/ ReaderLine
    \/ ReaderEmit
    \/ ReaderError

GoSpec == GoInit /\ [][GoNext]_vars

-----------------------------------------------------------------------------
(* FilterSpec: HashicorpRaftFilter on every short line *)

\* the strings of at most n characters of S
Seqs(S, n) == UNION { [1..k -> S] : k \in 0..n }

\* the characters of the lines: a token character, the separator, the
\* brackets, the five letters the filter knows and one it does not
FilterChars == {"t", " ", "[", "]", "D", "V", "I", "W", "E", "X"}

\* lines of hashicorp/raft with role markers
RaftLines ==
    { <<"t", " ", "[", "W", "]", " ", " ", "a">>,
      <<"t", " ", "[", "I", "]", " ">> \o Leader \o <<" ">> \o Leader,
      <<"t", " ">> \o Follower \o Candidate }

FilterLines == Seqs(FilterChars, MaxLineLen) \cup RaftLines

FilterInit ==
    /\ nodes = <<New(FALSE)>>
    /\ sink = <<>>
    /\ clock = 1
    /\ exited = FALSE
    /\ call = Called("New", 1, 0)
    /\ emitted = NoEmission
    /\ pc = [t \in Callers |-> "idle"]
    /\ frame = [t \in Callers |-> NoFrame]
    /\ \E line \in FilterLines, tty \in BOOLEAN :
          input = [op |-> "HashicorpRaftFilter", line |-> line, tty |-> tty]
    /\ gl = NoPipe
    /\ prev = Called("none", 0, 0)
    /\ order = NoOrder

\* HashicorpRaftFilter(line, tty) is called and returns msg, app and level
CallFilter ==
    /\ input.op = "HashicorpRaftFilter"
    /\ call.op = "New"
    /\ LET f == HashicorpRaftFilter(input.line, input.tty)
       IN call' = [op |-> input.op, line |-> input.line, tty |-> input.tty,
                   msg |-> f.msg, app |-> f.app, level |-> f.level]
    /\ UNCHANGED <<nodes, sink, clock, exited, emitted, pc, frame, aux>>

FilterNext == CallFilter

FilterSpec == FilterInit /\ [][FilterNext]_vars

-----------------------------------------------------------------------------
(* RenderSpec: one severity call on a root, for every short message *)

\* the characters of the messages: a letter and the four kinds of whitespace
MsgChars == {"a", " ", "\t", "\r", "\n"}

RenderInit ==
    /\ \E tty \in BOOLEAN : nodes = <<New(tty)>>
    /\ sink = <<>>
    /\ clock = 1
    /\ exited = FALSE
    /\ call = Called("New", 1, 0)
    /\ emitted = NoEmission
    /\ pc = [t \in Callers |-> "idle"]
    /\ frame = [t \in Callers |-> NoFrame]
    /\ \E op \in {"Notice", "Warning"}, msg \in Seqs(MsgChars, MaxMsgLen) :
          input = [op |-> op, l |-> 1, msg |-> msg]
    /\ gl = NoPipe
    /\ prev = Called("none", 0, 0)
    /\ order = NoOrder

\* the severity call drawn at the start is made
EmitDrawn ==
    /\ input.op \in EmitOps
    /\ call.op = "New"
    /\ Emit(input.op, input.l, OpLevel(input.op), input.msg, FALSE)

RenderNext == EmitDrawn

RenderSpec == RenderInit /\ [][RenderNext]_vars

-----------------------------------------------------------------------------
(* the claims *)

Root == nodes[1]

\* C1: with suppression disarmed, a severity call on any node hands exactly
\* one line to the sink when its level is at least the root's threshold, and
\* nothing when it is below; the line shows that level and that message
C1_ThresholdGatesEmit ==
    (call.op \in EmitOps /\ ~Root.idups) =>
        IF OpLevel(call.op) >= Root.level
        THEN /\ Len(sink) = 1
             /\ LineGlyph(sink[1]) = LevelString(OpLevel(call.op))
             /\ LineMsg(sink[1]) = call.arg
        ELSE sink = <<>>

\* a Debug call on a child, suppression disarmed, whose line was written
C1_Witness ==
    /\ call.op = "Debug"
    /\ call.l > 1
    /\ ~Root.idups
    /\ sink # <<>>

\* C2: the line of a severity call carries the app byte of the node the call
\* was made on, at any depth
C2_LineCarriesCallerApp ==
    (call.op \in EmitOps /\ sink # <<>>) => LineApp(sink[1]) = nodes[call.l].app

\* C3: SetLevel, SetFilter and SetIgnoreDups on any node change the root's
\* level, filter and idups and nothing else; every node accepts the same
\* levels as the root; a child keeps the fields Sub gave it
C3_SettersReachOnlyRoot ==
    [][ /\ call'.op = "SetLevel" =>
              /\ nodes' = [nodes EXCEPT ![1].level = nodes'[1].level]
              /\ call'.arg \in Levels => nodes'[1].level = call'.arg
        /\ call'.op = "SetFilter" => nodes' = [nodes EXCEPT ![1].filter = call'.arg]
        /\ call'.op = "SetIgnoreDups" => nodes' = [nodes EXCEPT ![1].idups = call'.arg]
        /\ \A l \in 1..Len(nodes') : \A level \in Levels :
              doesAccept(nodes', l, level) <=> (level >= nodes'[1].level)
        /\ \A l \in 2..Len(nodes') :
              nodes'[l] = SubLogger(nodes'[l].parent, nodes'[l].app)
      ]_vars

\* SetLevel on a grandchild has changed the root's level
C3_Witness ==
    /\ call.op = "SetLevel"
    /\ call.l = 3
    /\ call.arg = logLevelDebug
    /\ Root.level = logLevelDebug

\* C4: after SetLevel(level) on any node the root's level is Debug for an
\* argument below Debug, Warning for one above Warning, the argument
\* otherwise; the root's level is always one of Debug..Warning
C4_SetLevelClamps ==
    /\ Root.level \in Levels
    /\ call.op = "SetLevel" =>
          Root.level = (IF call.arg < 0 THEN 0 ELSE IF call.arg > 3 THEN 3 ELSE call.arg)

\* SetLevel on a child with an argument above Warning
C4_Witness ==
    /\ call.op = "SetLevel"
    /\ call.l > 1
    /\ call.arg > logLevelWarning

\* the severity call of this step passed the threshold
AcceptedStep == call'.op \in EmitOps /\ OpLevel(call'.op) >= Root.level

\* C5: with suppression armed, an accepted emission is written when none was
\* accepted before it; when the one accepted before it had the same message
\* and was made with suppression armed, it is written exactly if at least the
\* window has passed since that one
C5_WindowFromPrecedingEmission ==
    [][ (AcceptedStep /\ Root.idups) =>
           /\ emitted = NoEmission => sink' # <<>>
           /\ (emitted # NoEmission /\ emitted.armed /\ emitted.msg = call'.arg) =>
                 (sink' # <<>> <=> clock - emitted.t >= Window)
      ]_vars

\* a second emission of the same message within the window was dropped
C5_Witness ==
    /\ call.op = "Notice"
    /\ Root.idups
    /\ sink = <<>>
    /\ emitted = [msg |-> call.arg, t |-> clock, armed |-> TRUE]

\* C6: an accepted emission is dropped only when the emission accepted just
\* before it had the same message and was made less than the window earlier
C6_DropsOnlyConsecutiveDuplicates ==
    [][ (AcceptedStep /\ sink' = <<>>) =>
           /\ emitted # NoEmission
           /\ emitted.msg = call'.arg
           /\ clock - emitted.t < Window
      ]_vars

\* C7: the process exits only after the fatal call's line was handed to the
\* sink
C7_FatalWritesBeforeExit ==
    exited => (sink # <<>> /\ LineMsg(sink[1]) = call.arg)

\* what the filter makes of the bytes of the last Write
Filtered == ApplyFilter(Root.filter, TrimSpace(call.arg), Root.tty)

\* C8: Write on any node hands its bytes to the sink unchanged when the root
\* has no filter; with a filter, the filter's message goes through the
\* threshold and the suppression at the filter's level, and the line carries
\* the app byte of the node Write was called on
C8_WriteBypassOrFilter ==
    call.op = "Write" =>
        IF Root.filter = NoFilter THEN sink = <<call.arg>>
        ELSE /\ Filtered.level < Root.level => sink = <<>>
             /\ (Filtered.level >= Root.level /\ ~Root.idups) => Len(sink) = 1
             /\ sink # <<>> =>
                   /\ Len(sink) = 1
                   /\ LineApp(sink[1]) = nodes[call.l].app
                   /\ LineApp(sink[1]) # Filtered.app
                   /\ LineGlyph(sink[1]) = LevelString(Filtered.level)
                   /\ LineMsg(sink[1]) = Filtered.msg

\* a Write on the grandchild, through the filter, was written
C8_Witness ==
    /\ call.op = "Write"
    /\ call.l = 3
    /\ Root.filter # NoFilter
    /\ sink # <<>>

\* C9: a severity call returns no error; a Write whose sink write failed
\* returns the error, with and without a filter
C9_WritePropagatesSinkError ==
    /\ call.op \in EmitOps => ~call.err
    /\ (call.op = "Write" /\ call.werr) => call.err

\* C9, amended: a severity call returns no error; Write returns the sink's
\* count and error when the root has no filter, and len(p) and no error when
\* it has one, whatever the sink's Write returned
C9_WritePropagatesOnlyWithoutFilter ==
    /\ call.op \in EmitOps => (~call.err /\ call.n = 0)
    /\ call.op = "Write" =>
          IF Root.filter = NoFilter
          THEN /\ call.err = call.werr
               /\ call.n = (IF call.werr THEN 0 ELSE Len(call.arg))
          ELSE /\ ~call.err
               /\ call.n = Len(call.arg)

\* a Write through the filter whose sink write failed returned no error
C9_Witness ==
    /\ call.op = "Write"
    /\ Root.filter # NoFilter
    /\ call.werr
    /\ ~call.err

\* C10: a caller is inside the sink's Write only while it holds the root's
\* mutex for writing, so no two callers are inside it at once
C10_SinkWritesUnderRootLock ==
    /\ \A t \in Callers : pc[t] = "writing" => RootMu.w = t
    /\ Cardinality({t \in Callers : pc[t] = "writing"}) <= 1

\* the rank of a caller's position in its call: every step raises it
Rank(p) ==
    CASE p = "idle" -> 0
      [] p \in {"filter", "sub", "set"} -> 1
      [] p = "bypass" -> 2
      [] p = "doesAccept" -> 2
      [] p = "now" -> 3
      [] p = "cache" -> 4
      [] p = "write" -> 5
      [] p = "writing" -> 6
      [] p = "done" -> 7

\* the callers holding the mutex of node l
Holders(l) == {t \in Callers : nodes[l].mu.w = t} \cup nodes[l].mu.r

\* caller t is inside a call and its next step is not waiting for a mutex
CanStep(t) ==
    CASE pc[t] \in {"filter", "doesAccept"} -> RootMu.w = 0
      [] pc[t] \in {"cache", "write", "set"} -> RootMu = Unlocked
      [] pc[t] = "sub" -> nodes[frame[t].l].mu.w = 0
      [] pc[t] \in {"bypass", "now"} -> TRUE
      [] pc[t] = "writing" -> RootMu.w = t \/ frame[t].op = "Write"
      [] OTHER -> FALSE

\* C11: a caller holds a lock only inside the sink write of Logger.write, and
\* then only the root's; while any call is unfinished some caller can take a
\* step, and every step takes its caller nearer to the end of its call
C11_NoDeadlock ==
    /\ [](\A t \in Callers :
            /\ \A l \in Ls : t \in Holders(l) => (l = 1 /\ pc[t] = "writing")
            /\ pc[t] \notin {"idle", "done"} => \E u \in Callers : CanStep(u))
    /\ [][\A t \in Callers : pc'[t] # pc[t] => Rank(pc'[t]) > Rank(pc[t])]_vars

\* one caller waits for the root's mutex while the other is inside the sink
\* write
C11_Witness ==
    /\ pc[1] = "set"
    /\ pc[2] = "writing"
    /\ RootMu.w = 2

\* C12: the reader of GoLogger leaves its loop when a read fails: after a
\* failed read it has stopped, and it reads no second time
C12_ReaderEndsOnError ==
    gl.owner # 0 =>
        /\ gl.errs > 0 => gl.rpc = "stopped"
        /\ gl.errs <= 1

\* the messages GoLogger's reader is to pass on: the lines written, without
\* their newlines
Stripped(lines) == [i \in 1..Len(lines) |-> SubSeq(lines[i], 1, Len(lines[i]) - 1)]

\* the reader is waiting and nothing written is left to read
Drained == gl.rpc = "read" /\ gl.pipe = <<>> /\ gl.buf = <<>>

\* C13: the messages the reader has passed on are the first of the lines
\* written, in order and without their newlines, and all of them once nothing
\* is left to read; each goes through the owner's Notice call, so that with
\* suppression disarmed and the threshold at Notice each is one line in the
\* sink, with the owner's app byte and the Notice character
C13_RelaysEachLineOnce ==
    gl.owner # 0 =>
        /\ Len(gl.relayed) <= Len(gl.lines)
        /\ gl.relayed = SubSeq(Stripped(gl.lines), 1, Len(gl.relayed))
        /\ Drained => Len(gl.relayed) = Len(gl.lines)
        /\ Root.level > logLevelNotice => sink = <<>>
        /\ (Root.level <= logLevelNotice /\ ~Root.idups) =>
              /\ Len(sink) = Len(gl.relayed)
              /\ \A i \in 1..Len(sink) :
                    /\ LineApp(sink[i]) = nodes[gl.owner].app
                    /\ LineGlyph(sink[i]) = LevelString(logLevelNotice)
                    /\ LineMsg(sink[i]) = TrimRight(gl.relayed[i])

\* the part of a line after its leading token and the separating space
AfterToken(line) ==
    IF IndexByte(line, " ") # 0
    THEN SubSeq(line, IndexByte(line, " ") + 1, Len(line))
    ELSE line

\* C14: the level HashicorpRaftFilter returns is the one of the letter in the
\* bracket after the leading token, D, V, I, W, E giving Debug, Verbose,
\* Notice, Warning, Warning, and Verbose for any other letter and for a line
\* with no bracket there
C14_FilterLevelDefaultsToVerbose ==
    call.op = "HashicorpRaftFilter" =>
        LET m == AfterToken(call.line)
            bracket == IndexByte(m, "]") # 0 /\ m[1] = "["
        IN call.level =
              IF ~bracket THEN logLevelVerbose
              ELSE CASE m[2] = "D" -> logLevelDebug
                     [] m[2] = "V" -> logLevelVerbose
                     [] m[2] = "I" -> logLevelNotice
                     [] m[2] = "W" -> logLevelWarning
                     [] m[2] = "E" -> logLevelWarning
                     [] OTHER -> logLevelVerbose

\* C15: the line written for a message ends with one newline that no
\* whitespace precedes, and what follows the level character in it is the
\* message without its trailing spaces, tabs, CRs and LFs, its leading and
\* interior whitespace kept; on a terminal and on a plain sink
C15_TrailingWhitespaceStripped ==
    (input.op \in EmitOps /\ call.op \in EmitOps) =>
        /\ Len(sink) = 1
        /\ LET line == sink[1]
           IN /\ line[Len(line)] = "\n"
              /\ line[Len(line) - 1] \notin Space
              /\ LineMsg(line) = TrimRight(call.arg)
              /\ LineGlyph(line) = LevelString(OpLevel(call.op))

\* a message with a leading space and a trailing newline was written to a
\* terminal
C15_Witness ==
    /\ input.op \in EmitOps
    /\ call.op = "Notice"
    /\ Root.tty
    /\ call.arg = <<" ", "a", "\n">>
    /\ sink # <<>>

\* C16: a severity call below the threshold changes no field of any Logger,
\* the suppression cache included, hands nothing to the sink, and leaves the
\* last accepted emission, the clock and the process as they were
C16_RejectedEmitChangesNothing ==
    [][ (call'.op \in EmitOps /\ OpLevel(call'.op) < Root.level) =>
           /\ nodes' = nodes
           /\ sink' = <<>>
           /\ emitted' = emitted
           /\ clock' = clock
           /\ exited' = exited
      ]_vars

\* a Debug call was rejected while the armed cache held another message
C16_Witness ==
    /\ call.op = "Debug"
    /\ Root.level > logLevelDebug
    /\ Root.idups
    /\ Root.last # <<>>
    /\ Root.last # call.arg
    /\ Root.lastt = clock
    /\ sink = <<>>

\* C17: with suppression armed, an accepted emission made less than the
\* window after the accepted emission before it is dropped when the two
\* messages are equal and written when they differ, whichever nodes and
\* severity calls made them
C17_OneCacheComparesTextOnly ==
    [][ (AcceptedStep /\ Root.idups /\ emitted # NoEmission /\ emitted.armed
            /\ clock - emitted.t < Window) =>
           (sink' = <<>> <=> emitted.msg = call'.arg)
      ]_vars

\* a Warning on the grandchild was dropped right after a Notice of the same
\* message on the child
C17_Witness ==
    /\ call.op = "Warning"
    /\ call.l = 3
    /\ prev.op = "Notice"
    /\ prev.l = 2
    /\ prev.arg = call.arg
    /\ Root.idups
    /\ sink = <<>>

\* caller t has been through time.Now() in logf: its level was accepted
Stamped(t) == frame[t].now # 0

\* C18: with suppression armed and the cache empty at the start, two callers
\* whose calls have ended, both accepted, with the same message and timestamps
\* within one window, have put exactly one line in the sink
C18_ConcurrentDuplicatesWriteOnce ==
    ( /\ Root.idups
      /\ \A t \in Callers : pc[t] = "done" /\ Stamped(t)
      /\ frame[1].msg = frame[2].msg
      /\ frame[1].now - frame[2].now < Window
      /\ frame[2].now - frame[1].now < Window )
    => Len(sink) = 1

\* a Notice on the child and one on the grandchild, of the same message, have
\* both ended and one line was written
C18_Witness ==
    /\ Root.idups
    /\ \A t \in Callers : pc[t] = "done" /\ Stamped(t) /\ frame[t].op = "logf"
    /\ frame[1].l = 2
    /\ frame[2].l = 3
    /\ frame[1].msg = frame[2].msg
    /\ Len(sink) = 1

\* the callers whose lines logf has written, in the order of the sink
EmitWrites == SelectSeq(order.written, Stamped)

\* the elements of a sequence
Range(q) == {q[i] : i \in 1..Len(q)}

\* C19: the lines of the severity calls and filtered Writes are in the sink in
\* the order in which their callers left the suppression check, and their
\* timestamps never decrease along the sink
C19_SinkOrderIsCheckOrder ==
    /\ EmitWrites = SubSeq(order.checked, 1, Len(EmitWrites))
    /\ \A i, j \in 1..Len(EmitWrites) :
          i < j => frame[EmitWrites[i]].now <= frame[EmitWrites[j]].now

\* C19, amended: every caller that left the suppression check with its line
\* not dropped writes that line to the sink once, whole and with the
\* timestamp it took, and no other caller of logf writes; the order of the
\* lines in the sink is the order in which the callers took the mutex in
\* write, whatever the order of the checks and of the timestamps
C19_CheckedLinesWrittenOnce ==
    /\ Range(EmitWrites) \subseteq Range(order.checked)
    /\ Cardinality(Range(EmitWrites)) = Len(EmitWrites)
    /\ \A t \in Range(order.checked) : pc[t] = "done" => t \in Range(EmitWrites)
    /\ Len(sink) = Len(order.written)
    /\ \A i \in 1..Len(sink) :
          LET t == order.written[i]
          IN Stamped(t) =>
                /\ SplitN(sink[i], 6)[4] = <<ToString(frame[t].now)>>
                /\ LineMsg(sink[i]) = TrimRight(frame[t].msg)
                /\ LineApp(sink[i]) = frame[t].app

\* caller 1 took its timestamp and left the check first, and caller 2, with
\* a later timestamp, wrote first
C19_Witness ==
    /\ order.checked = <<1, 2>>
    /\ EmitWrites = <<2, 1>>
    /\ frame[1].now < frame[2].now
    /\ Len(sink) = 2

=============================================================================
